---- MODULE Spec2Model ----
(***************************************************************************)
(* Model of the package subcommand of the DCOS command line interface      *)
(* (cli/dcoscli/package/main.py): the install orchestration, the describe  *)
(* resolution path and the bundle (archive builder) pipeline.              *)
(*                                                                         *)
(* One behaviour is one process invocation: Init fixes the command, its    *)
(* arguments and the environment (package repository, source directory,    *)
(* output directory); every action is one statement group of the handler.  *)
(***************************************************************************)
EXTENDS Integers, Sequences, FiniteSets, TLC

(***************************************************************************)
(* Bounds of the model.                                                    *)
(***************************************************************************)
MaxVersion == 2        \* versions a package can have in the repository
MaxPrompts == 1        \* invalid responses the operator can give to a prompt
MaxOptionValue == 2    \* option values range over 0..MaxOptionValue
MaxEntries == 5        \* entries a package directory can hold
HashMod == 3           \* digests range over 0..HashMod-1
MaxRuns == 2           \* builds over the same directories
MaxInstalled == 2      \* records the scheduler reports

(***************************************************************************)
(* Python's None and optional values: None is <<>>, a value v is <<v>>.    *)
(***************************************************************************)
None == <<>>
Some(v) == <<v>>
Get(o) == o[1]

RECURSIVE Join(_)
Join(chars) == IF chars = <<>> THEN "" ELSE Head(chars) \o Join(Tail(chars))

RECURSIVE JoinWith(_, _)
JoinWith(sep, strs) ==
    IF strs = <<>> THEN ""
    ELSE IF Len(strs) = 1 THEN strs[1]
    ELSE strs[1] \o sep \o JoinWith(sep, Tail(strs))

SetMax(S) == CHOOSE m \in S : \A x \in S : x <= m

VARIABLES
    cmd,            \* the command of this invocation (cmds.execute dispatch)
    pc,             \* position in the handler
    args,           \* the parsed command line arguments
    repo,           \* package name -> set of revisions the sources declare
    cli,            \* local cli of _install
    app,            \* local app of _install
    pkg,            \* local pkg: None or the resolved package
    pkg_revision,   \* local pkg_revision
    user_options,   \* local user_options
    options,        \* local options (the merged, validated option set)
    prompts,        \* invalid responses read so far by _confirm
    response,       \* local response of _confirm: the last line read
    apps,           \* apps the scheduler runs
    subcommands,    \* packages in the local subcommand store
    calls,          \* calls made to the two target adapters, in order
    out,            \* messages published by the emitter, in order
    exit,           \* None while running, else the process status
    src,            \* the entries of the package directory
    files,          \* path -> content of the files of the output directories
    tmp,            \* None or the content of the temporary file
    stack,          \* the for loops of the walk, innermost last
    package_json,   \* local package_json of _bundle
    validated,      \* paths whose validation has passed
    zip_file_name,  \* local zip_file_name of _bundle
    installed,      \* local installed of _list: the records fetched
    cursor,         \* position of the for loop of _list in installed
    results,        \* local results of _list
    run,            \* which build over the same directories this is
    first           \* what the first build ended with

\* the state of install and describe
ivars == <<repo, cli, app, pkg, pkg_revision, user_options, options, prompts,
           response, apps, subcommands, calls>>

\* the state of bundle
bvars == <<src, files, tmp, stack, package_json, validated, zip_file_name>>

\* the state of list
lvars == <<installed, cursor, results>>

\* the builds over the same directories
rvars == <<run, first>>

vars == <<cmd, pc, args, ivars, bvars, lvars, rvars, out, exit>>

(***************************************************************************)
(* The environment: package names, versions, revisions.                    *)
(***************************************************************************)
PackageNames == {"foo", "ghost"}     \* names an operator may ask for
KnownPackages == {"foo"}             \* names the sources know
Revisions == 0 .. (MaxVersion - 1)
Versions == 1 .. MaxVersion

\* pkg.package_revisions_map(): revision -> version
package_revisions_map(revs) == [r \in revs |-> r + 1]

VersionStr(v) == ToString(v) \o ".0"
OptStr(o) == IF o = None THEN "None" ELSE VersionStr(Get(o))

\* package.resolve_package(name): the package or None
resolve_package(name) == IF name \in DOMAIN repo THEN Some(name) ELSE None

\* pkg.latest_package_revision(package_version)
latest_package_revision(revs, package_version) ==
    IF package_version = None
    THEN IF revs = {} THEN None ELSE Some(SetMax(revs))
    ELSE LET m == {r \in revs : package_revisions_map(revs)[r] = Get(package_version)}
         IN  IF m = {} THEN None ELSE Some(CHOOSE r \in m : TRUE)

\* what a revision can declare (package.json notes, the two templates)
PackageDefs ==
    [marathon : BOOLEAN, command : BOOLEAN,
     preInstallNotes : {None, Some("pre-install notes")},
     postInstallNotes : {None, Some("post-install notes")}]

has_marathon_definition(p) == p.marathon
has_command_definition(p) == p.command

(***************************************************************************)
(* Options: config.json declares defaults and a schema; pkg.options merges *)
(* the user's options over the defaults and validates the result.          *)
(***************************************************************************)
OptionKeys == {"a", "b"}
OptionValues == 0 .. MaxOptionValue
ConfigDefaults == [a |-> 0, b |-> MaxOptionValue]
\* the schema of config.json: a is at most 1, b is at least 1
ConfigSchemaAllows(k, v) == IF k = "a" THEN v <= 1 ELSE v >= 1

UserOptionSets ==
    UNION {[K -> OptionValues] : K \in SUBSET OptionKeys}

MergeOptions(defaults, user) ==
    [k \in DOMAIN defaults \cup DOMAIN user |->
        IF k \in DOMAIN user THEN user[k] ELSE defaults[k]]

ValidateOptions(o) == {k \in DOMAIN o : ~ConfigSchemaAllows(k, o[k])}

(***************************************************************************)
(* main(): a DCOSException is published and the status is 1.               *)
(***************************************************************************)
Raise(msgs, e) ==
    /\ out' = out \o msgs \o <<e>>
    /\ exit' = Some(1)
    /\ pc' = "done"

Return(msgs, code) ==
    /\ out' = out \o msgs
    /\ exit' = Some(code)
    /\ pc' = "done"

(***************************************************************************)
(* _confirm: the response is stripped and lowered.                         *)
(***************************************************************************)
Whitespace == {" ", "\n", "\t"}

LowerChar(c) ==
    CASE c = "Y" -> "y" [] c = "E" -> "e" [] c = "S" -> "s"
      [] c = "N" -> "n" [] c = "O" -> "o" [] OTHER -> c

Lower(s) == [i \in 1 .. Len(s) |-> LowerChar(s[i])]

RECURSIVE LStrip(_)
LStrip(s) == IF s # <<>> /\ Head(s) \in Whitespace THEN LStrip(Tail(s)) ELSE s

RECURSIVE RStrip(_)
RStrip(s) ==
    IF s # <<>> /\ s[Len(s)] \in Whitespace
    THEN RStrip(SubSeq(s, 1, Len(s) - 1)) ELSE s

StripNothing(s) == s

\* str.strip()
Strip(s) == RStrip(LStrip(s))

\* lines the operator can type; <<>> is end of input
ValidLines ==
    { <<"y", "e", "s", "\n">>, <<" ", "Y", " ", "\n">>,
      <<"N", "o", "\n">>, <<"n", "\n">> }
InvalidLines == { <<"\n">>, <<"y", "e", "\n">>, <<>> }
StdinLines == ValidLines \cup InvalidLines

ConfirmNoAsYes(r) ==
    IF r \in {<<"y", "e", "s">>, <<"y">>, <<"n", "o">>, <<"n">>}
    THEN "yes" ELSE "invalid"

\* the branch _confirm takes on a response
ConfirmResult(r) ==
    IF r = <<"y", "e", "s">> \/ r = <<"y">> THEN "yes"
    ELSE IF r = <<"n", "o">> \/ r = <<"n">> THEN "no"
    ELSE "invalid"

(***************************************************************************)
(* Messages of _install and _describe.                                     *)
(***************************************************************************)
InstallNotFoundMsg(name) ==
    "Package [" \o name \o "] not found\n" \o
    "You may need to run 'dcos package update' to update your " \o
    "repositories"

VersionNotAvailableSameAsNotFound(version, name) == InstallNotFoundMsg(name)

VersionNotAvailableMsg(version, name) ==
    "Version " \o OptStr(version) \o " of package [" \o name \o
    "] is not available"

PackageNotAvailableMsg(name) == "Package [" \o name \o "] not available"

DescribeNotFoundMsg(name) == "Package [" \o name \o "] not found"

InstallingAppMsg(name, version, app_id) ==
    "Installing Marathon app for package [" \o name \o "] version [" \o
    VersionStr(version) \o "]" \o
    (IF app_id # None THEN " with app id [" \o Get(app_id) \o "]" ELSE "")

InstallingCliMsg(name, version) ==
    "Installing CLI subcommand for package [" \o name \o "] version [" \o
    VersionStr(version) \o "]"

OptionErrorsMsg(errs) ==
    JoinWith("\n", SelectSeq(<<"a", "b">>, LAMBDA k : k \in errs)) \o
    ": value violates the schema of config.json"

(***************************************************************************)
(* install: _install, statement group by statement group.                  *)
(***************************************************************************)
EffectiveCliAsGiven(a) == a.cli

\* lines 330-332: install both if neither flag is specified
EffectiveCli(a) == IF a.cli = FALSE /\ a.app = FALSE THEN TRUE ELSE a.cli
EffectiveApp(a) == IF a.cli = FALSE /\ a.app = FALSE THEN TRUE ELSE a.app

InstallOrderCliFirst ==
    <<"install", "user_options", "pre_notes", "options", "cli", "app",
      "post_notes">>

InstallOrderOptionsLate ==
    <<"install", "user_options", "pre_notes", "app", "cli", "options",
      "post_notes">>

\* the order of the statement groups of _install
InstallOrder ==
    <<"install", "user_options", "pre_notes", "options", "app", "cli",
      "post_notes">>

NextPc(p) ==
    LET i == CHOOSE j \in 1 .. Len(InstallOrder) : InstallOrder[j] = p
    IN  InstallOrder[i + 1]

DefaultAppId(name) == "/" \o name

\* subcommand.get_package_commands: the executables of a package
get_package_commands(store, name) ==
    IF name \in store
    THEN << <<"d", "c", "o", "s", "-", "f", "o", "o">> >>
    ELSE << >>

\* os.path.basename(p).replace('-', ' ', 1)
RECURSIVE ReplaceFirstHyphen(_)
ReplaceFirstHyphen(s) ==
    IF s = <<>> THEN <<>>
    ELSE IF Head(s) = "-" THEN <<" ">> \o Tail(s)
    ELSE <<Head(s)>> \o ReplaceFirstHyphen(Tail(s))

NewCommandsMsg(new_commands) ==
    "New command" \o (IF Len(new_commands) > 1 THEN "s" ELSE "") \o
    " available: " \o JoinWith(", ", new_commands)

\* lines 330-350
InstallResolve ==
    /\ cmd = "install" /\ pc = "install"
    /\ cli' = EffectiveCli(args)
    /\ app' = EffectiveApp(args)
    /\ LET p == resolve_package(args.package_name) IN
       IF p = None
       THEN /\ Raise(<<>>, InstallNotFoundMsg(args.package_name))
            /\ UNCHANGED <<pkg, pkg_revision>>
       ELSE LET rev == latest_package_revision(repo[Get(p)],
                                               args.package_version) IN
            IF rev = None
            THEN /\ Raise(<<>>,
                      IF args.package_version # None
                      THEN VersionNotAvailableMsg(args.package_version,
                                                  args.package_name)
                      ELSE PackageNotAvailableMsg(args.package_name))
                 /\ UNCHANGED <<pkg, pkg_revision>>
            ELSE /\ \E d \in PackageDefs :
                        pkg' = Some([name |-> Get(p),
                                     marathon |-> d.marathon,
                                     command |-> d.command,
                                     preInstallNotes |-> d.preInstallNotes,
                                     postInstallNotes |-> d.postInstallNotes])
                 /\ pkg_revision' = rev
                 /\ pc' = NextPc("install")
                 /\ UNCHANGED <<out, exit>>
    /\ UNCHANGED <<cmd, args, repo, user_options, options, prompts, response, apps,
                   subcommands, calls>>
    /\ UNCHANGED <<bvars, lvars, rvars>>

\* line 352 and _user_options
InstallUserOptions ==
    /\ cmd = "install" /\ pc = "user_options"
    /\ IF args.options_path = None
       THEN /\ user_options' = Some(<<>>)
            /\ pc' = NextPc("user_options")
            /\ UNCHANGED <<out, exit>>
       ELSE \/ \E u \in UserOptionSets :
                  /\ user_options' = Some(u)
                  /\ pc' = NextPc("user_options")
                  /\ UNCHANGED <<out, exit>>
            \/ /\ Raise(<<>>, "Error opening file [" \o
                              Get(args.options_path) \o "]")
               /\ UNCHANGED user_options
    /\ UNCHANGED <<cmd, args, repo, cli, app, pkg, pkg_revision, options,
                   prompts, response, apps, subcommands, calls>>
    /\ UNCHANGED <<bvars, lvars, rvars>>

\* lines 354-357: the notes are published, then _confirm is entered
InstallPreNotes ==
    /\ cmd = "install" /\ pc = "pre_notes"
    /\ IF Get(pkg).preInstallNotes # None
       THEN /\ out' = Append(out, Get(Get(pkg).preInstallNotes))
            /\ pc' = IF args.yes THEN NextPc("pre_notes") ELSE "confirm"
       ELSE /\ pc' = NextPc("pre_notes")
            /\ out' = out
    /\ UNCHANGED <<cmd, args, repo, cli, app, pkg, pkg_revision, user_options,
                   options, prompts, response, apps, subcommands, calls, exit>>
    /\ UNCHANGED <<bvars, lvars, rvars>>

\* lines 295-305 and 358-360: one turn of the prompt loop
InstallConfirm ==
    /\ cmd = "install" /\ pc = "confirm"
    /\ \E line \in StdinLines :
         /\ response' = Some(Lower(Strip(line)))
         /\ LET resp == Lower(Strip(line))
                prompt == "Continue installing? [yes/no] "
                result == ConfirmResult(resp)
            IN  CASE result = "yes" ->
                       /\ out' = Append(out, prompt)
                       /\ pc' = NextPc("pre_notes")
                       /\ UNCHANGED <<exit, prompts>>
                  [] result = "no" ->
                       /\ Return(<<prompt, "Exiting installation.">>, 0)
                       /\ UNCHANGED prompts
                  [] OTHER ->
                       /\ prompts < MaxPrompts
                       /\ prompts' = prompts + 1
                       /\ out' = out \o <<prompt, "'" \o Join(resp) \o
                                          "' is not a valid response.">>
                       /\ UNCHANGED <<pc, exit>>
    /\ UNCHANGED <<cmd, args, repo, cli, app, pkg, pkg_revision, user_options,
                   options, apps, subcommands, calls>>
    /\ UNCHANGED <<bvars, lvars, rvars>>

\* line 362: pkg.options merges and validates, raising on a violation
InstallOptions ==
    /\ cmd = "install" /\ pc = "options"
    /\ LET merged == MergeOptions(ConfigDefaults, Get(user_options))
           errs == ValidateOptions(merged)
       IN  IF errs # {}
           THEN /\ Raise(<<>>, OptionErrorsMsg(errs))
                /\ UNCHANGED options
           ELSE /\ options' = Some(merged)
                /\ pc' = NextPc("options")
                /\ UNCHANGED <<out, exit>>
    /\ UNCHANGED <<cmd, args, repo, cli, app, pkg, pkg_revision, user_options,
                   prompts, response, apps, subcommands, calls>>
    /\ UNCHANGED <<bvars, lvars, rvars>>

ShouldInstallAppAlways == app

\* line 367
ShouldInstallApp == app /\ has_marathon_definition(Get(pkg))

\* line 385
ShouldInstallCli == cli /\ has_command_definition(Get(pkg))

\* package.install_app raised: nothing catches it before main
InstallAppFailed(msgs, e) ==
    /\ Raise(msgs, e)
    /\ UNCHANGED apps

InstallCliFailedRollback(msgs, e) ==
    /\ Raise(msgs, e)
    /\ apps' = {}
    /\ UNCHANGED subcommands

InstallCliFailedSwallowed(msgs, e) ==
    /\ out' = out \o msgs \o <<e>>
    /\ pc' = NextPc("cli")
    /\ UNCHANGED <<apps, subcommands, exit>>

\* subcommand.install raised: nothing catches it before main
InstallCliFailed(msgs, e) ==
    /\ Raise(msgs, e)
    /\ UNCHANGED <<apps, subcommands>>

\* lines 364-383
InstallApp ==
    /\ cmd = "install" /\ pc = "app"
    /\ IF ShouldInstallApp
       THEN LET name == Get(pkg).name
                package_version ==
                    package_revisions_map(repo[name])[Get(pkg_revision)]
                msg == InstallingAppMsg(name, package_version, args.app_id)
                id == IF args.app_id # None THEN Get(args.app_id)
                      ELSE DefaultAppId(name)
            IN  \E ok \in BOOLEAN :
                  /\ calls' = Append(calls, [fn |-> "install_app",
                                             ok |-> ok,
                                             options |-> options])
                  /\ IF ok
                     THEN /\ apps' = apps \cup {[name |-> name, id |-> id]}
                          /\ out' = Append(out, msg)
                          /\ pc' = NextPc("app")
                          /\ UNCHANGED exit
                     ELSE InstallAppFailed(<<msg>>,
                              "Error: the scheduler rejected app [" \o id
                              \o "]")
       ELSE /\ pc' = NextPc("app")
            /\ UNCHANGED <<calls, apps, out, exit>>
    /\ UNCHANGED <<cmd, args, repo, cli, app, pkg, pkg_revision, user_options,
                   options, prompts, response, subcommands>>
    /\ UNCHANGED <<bvars, lvars, rvars>>

\* lines 385-401
InstallCli ==
    /\ cmd = "install" /\ pc = "cli"
    /\ IF ShouldInstallCli
       THEN LET name == Get(pkg).name
                package_version ==
                    package_revisions_map(repo[name])[Get(pkg_revision)]
                msg == InstallingCliMsg(name, package_version)
            IN  \E ok \in BOOLEAN :
                  /\ calls' = Append(calls, [fn |-> "subcommand.install",
                                             ok |-> ok,
                                             options |-> options])
                  /\ IF ok
                     THEN LET store == subcommands \cup {name}
                              subcommand_paths ==
                                  get_package_commands(store,
                                                       args.package_name)
                              new_commands ==
                                  [i \in 1 .. Len(subcommand_paths) |->
                                     Join(ReplaceFirstHyphen(
                                              subcommand_paths[i]))]
                          IN  /\ subcommands' = store
                              /\ out' = out \o <<msg>> \o
                                    (IF new_commands # <<>>
                                     THEN <<NewCommandsMsg(new_commands)>>
                                     ELSE <<>>)
                              /\ pc' = NextPc("cli")
                              /\ UNCHANGED <<apps, exit>>
                     ELSE InstallCliFailed(<<msg>>,
                              "Error: could not install the subcommand of ["
                              \o name \o "]")
       ELSE /\ pc' = NextPc("cli")
            /\ UNCHANGED <<calls, apps, subcommands, out, exit>>
    /\ UNCHANGED <<cmd, args, repo, cli, app, pkg, pkg_revision, user_options,
                   options, prompts, response>>
    /\ UNCHANGED <<bvars, lvars, rvars>>

\* lines 403-407
InstallPostNotes ==
    /\ cmd = "install" /\ pc = "post_notes"
    /\ Return(IF Get(pkg).postInstallNotes # None
              THEN <<Get(Get(pkg).postInstallNotes)>> ELSE <<>>, 0)
    /\ UNCHANGED <<cmd, args, repo, cli, app, pkg, pkg_revision, user_options,
                   options, prompts, response, apps, subcommands, calls>>
    /\ UNCHANGED <<bvars, lvars, rvars>>

(***************************************************************************)
(* describe: _describe.                                                    *)
(***************************************************************************)
\* lines 208-209: supplied template options force rendering
Render(a) == a.render \/ a.options_path # None

\* lines 211-212
DescribeArgConflict(a) ==
    a.package_versions /\
    (a.app \/ a.cli \/ a.options_path # None \/ Render(a) \/
     a.package_version # None \/ a.config)

\* list(revision_map.values()) joined by newlines
VersionsText(revs) ==
    LET RECURSIVE Listing(_)
        Listing(r) ==
            IF r > SetMax(revs) THEN <<>>
            ELSE (IF r \in revs
                  THEN <<VersionStr(package_revisions_map(revs)[r])>>
                  ELSE <<>>) \o Listing(r + 1)
    IN  IF revs = {} THEN "" ELSE JoinWith("\n", Listing(0))

\* lines 208-225
DescribeResolve ==
    /\ cmd = "describe" /\ pc = "describe"
    /\ IF DescribeArgConflict(args)
       THEN /\ Raise(<<>>, "If --package-versions is provided, no other " \o
                           "option can be provided")
            /\ UNCHANGED <<pkg, pkg_revision>>
       ELSE LET p == resolve_package(args.package_name) IN
            IF p = None
            THEN /\ Raise(<<>>, DescribeNotFoundMsg(args.package_name))
                 /\ UNCHANGED <<pkg, pkg_revision>>
            ELSE LET rev == latest_package_revision(repo[Get(p)],
                                                    args.package_version) IN
                 IF rev = None
                 THEN /\ Raise(<<>>,
                               VersionNotAvailableMsg(args.package_version,
                                                      args.package_name))
                      /\ UNCHANGED <<pkg, pkg_revision>>
                 ELSE /\ \E d \in PackageDefs :
                           pkg' = Some([name |-> Get(p),
                                        marathon |-> d.marathon,
                                        command |-> d.command,
                                        preInstallNotes |-> d.preInstallNotes,
                                        postInstallNotes |->
                                            d.postInstallNotes])
                      /\ pkg_revision' = rev
                      /\ pc' = "describe_emit"
                      /\ UNCHANGED <<out, exit>>
    /\ UNCHANGED <<cmd, args, repo, cli, app, user_options, options, prompts, response,
                   apps, subcommands, calls>>
    /\ UNCHANGED <<bvars, lvars, rvars>>

\* what describe publishes for a template
TemplateText(file, declared, rendered) ==
    IF ~declared THEN "None"
    ELSE file \o (IF rendered THEN " (rendered)" ELSE " (template)")

\* lines 227-264
DescribeEmit ==
    /\ cmd = "describe" /\ pc = "describe_emit"
    /\ LET name == Get(pkg).name
           revs == repo[name]
           version == package_revisions_map(revs)[Get(pkg_revision)]
           pkg_json ==
               "package.json of [" \o name \o "] " \o
               (IF args.package_version = None
                THEN "versions [" \o VersionsText(revs) \o "]"
                ELSE "version [" \o VersionStr(version) \o "]")
       IN
       IF args.package_versions
       THEN /\ Return(<<VersionsText(revs)>>, 0)
            /\ UNCHANGED <<user_options, options>>
       ELSE IF args.cli \/ args.app \/ args.config
       THEN \/ /\ args.options_path # None
               /\ Raise(<<>>, "Error opening file [" \o
                              Get(args.options_path) \o "]")
               /\ UNCHANGED <<user_options, options>>
            \/ \E u \in (IF args.options_path = None THEN {<<>>}
                         ELSE UserOptionSets) :
                 LET merged == MergeOptions(ConfigDefaults, u)
                     errs == ValidateOptions(merged)
                 IN  /\ user_options' = Some(u)
                     /\ IF errs # {}
                        THEN /\ Raise(<<>>, OptionErrorsMsg(errs))
                             /\ UNCHANGED options
                        ELSE /\ options' = Some(merged)
                             /\ Return(
                                  (IF args.cli
                                   THEN <<TemplateText("command.json",
                                            Get(pkg).command, Render(args))>>
                                   ELSE <<>>) \o
                                  (IF args.app
                                   THEN <<TemplateText("marathon.json",
                                            Get(pkg).marathon, Render(args))>>
                                   ELSE <<>>) \o
                                  (IF args.config
                                   THEN <<"config.json">> ELSE <<>>), 0)
       ELSE /\ Return(<<pkg_json>>, 0)
            /\ UNCHANGED <<user_options, options>>
    /\ UNCHANGED <<cmd, args, repo, cli, app, pkg, pkg_revision, prompts, response,
                   apps, subcommands, calls>>
    /\ UNCHANGED <<bvars, lvars, rvars>>

(***************************************************************************)
(* bundle: the package directory is a set of entries, each a path below    *)
(* the directory, a kind and its content; content 0 is content that fails  *)
(* its validation.                                                         *)
(***************************************************************************)
File(path, data) == [path |-> path, kind |-> "file", data |-> data]
Dir(path) == [path |-> path, kind |-> "dir", data |-> 0]

\* the entries a package directory can hold
SourceEntries ==
    { File(<<"package.json">>, 0), File(<<"package.json">>, 1),
      File(<<"config.json">>, 0), File(<<"config.json">>, 1),
      File(<<"command.json">>, 0), File(<<"command.json">>, 1),
      File(<<"marathon.json.mustache">>, 1),
      File(<<"foo.txt">>, 1),
      Dir(<<"assets">>), File(<<"assets">>, 1),
      Dir(<<"images">>), File(<<"images">>, 1),
      Dir(<<"assets", "uris">>), File(<<"assets", "uris">>, 1),
      File(<<"assets", "extra.txt">>, 1),
      File(<<"assets", "uris", "a.bin">>, 1),
      Dir(<<"assets", "uris", "sub">>),
      File(<<"assets", "uris", "sub", "x.bin">>, 1),
      File(<<"images", "icon-small.png">>, 0),
      File(<<"images", "icon-small.png">>, 1),
      File(<<"images", "icon-medium.png">>, 1),
      File(<<"images", "icon-large.png">>, 1),
      Dir(<<"images", "screenshots">>), File(<<"images", "screenshots">>, 1),
      File(<<"images", "junk.txt">>, 1),
      File(<<"images", "screenshots", "s1.png">>, 0),
      File(<<"images", "screenshots", "s1.png">>, 1),
      Dir(<<"images", "screenshots", "sub">>) }

Parent(path) == SubSeq(path, 1, Len(path) - 1)

CanAdd(t, n) ==
    /\ \A m \in t : m.path # n.path
    /\ Len(n.path) = 1 \/ Dir(Parent(n.path)) \in t

\* the directories of at most k entries
RECURSIVE Trees(_)
Trees(k) ==
    IF k = 0 THEN {{}}
    ELSE LET T == Trees(k - 1) IN
         T \cup { x[1] \cup {x[2]} :
                    x \in {y \in T \X SourceEntries : CanAdd(y[1], y[2])} }

\* the file names in lexicographic order
NameOrder ==
    <<"a.bin", "assets", "command.json", "config.json", "extra.txt",
      "foo.txt", "icon-large.png", "icon-medium.png", "icon-small.png",
      "images", "junk.txt", "marathon.json.mustache", "package.json",
      "s1.png", "screenshots", "sub", "uris", "x.bin">>

Rank(name) == CHOOSE i \in 1 .. Len(NameOrder) : NameOrder[i] = name

\* sorted(names)
sorted(names) == SelectSeq(NameOrder, LAMBDA n : n \in names)

\* os.listdir(dir)
listdir(tree, dir) ==
    {n.path[Len(n.path)] :
        n \in {m \in tree : Len(m.path) = Len(dir) + 1 /\ Parent(m.path) = dir}}

Node(tree, path) == CHOOSE n \in tree : n.path = path

\* os.path.exists(os.path.join(package_directory, 'package.json'))
HasPackageJson(tree) == \E n \in tree : n.path = <<"package.json">>

\* os.path.join
FullPath(dir, path) == dir \o "/" \o JoinWith("/", path)

\* util.validate_json(special_json, special_schema) reports no error
ValidJson(node) == node.kind = "file" /\ node.data # 0

\* util.validate_png accepts the file
ValidPng(node) == node.kind = "file" /\ node.data # 0

Icons == {"icon-small.png", "icon-medium.png", "icon-large.png"}

ClassifyIconsUnchecked(fn, filename, isdir) ==
    CASE fn = "_bundle" ->
            IF filename = "marathon.json.mustache" THEN "write"
            ELSE IF filename \in {"config.json", "command.json",
                                  "package.json"} THEN "json"
            ELSE IF filename = "assets" /\ isdir THEN "_bundle_assets"
            ELSE IF filename = "images" /\ isdir THEN "_bundle_images"
            ELSE "extra"
      [] fn = "_bundle_assets" ->
            IF filename = "uris" /\ isdir THEN "_bundle_uris" ELSE "extra"
      [] fn = "_bundle_uris" -> "write"
      [] fn = "_bundle_images" ->
            IF filename \in Icons THEN "write"
            ELSE IF filename = "screenshots" /\ isdir
                 THEN "_bundle_screenshots"
            ELSE "extra"
      [] OTHER -> "png"

\* what the walk does with an entry of the directory function fn lists:
\* lines 562-577, 665-671, 687, 702-715, 731-735
Classify(fn, filename, isdir) ==
    CASE fn = "_bundle" ->
            IF filename = "marathon.json.mustache" THEN "write"
            ELSE IF filename \in {"config.json", "command.json",
                                  "package.json"} THEN "json"
            ELSE IF filename = "assets" /\ isdir THEN "_bundle_assets"
            ELSE IF filename = "images" /\ isdir THEN "_bundle_images"
            ELSE "extra"
      [] fn = "_bundle_assets" ->
            IF filename = "uris" /\ isdir THEN "_bundle_uris" ELSE "extra"
      [] fn = "_bundle_uris" -> "write"
      [] fn = "_bundle_images" ->
            IF filename \in Icons THEN "png"
            ELSE IF filename = "screenshots" /\ isdir
                 THEN "_bundle_screenshots"
            ELSE "extra"
      [] OTHER -> "png"

\* the arcname of zip_file.write
Arcname(fn, filename) ==
    CASE fn = "_bundle" -> filename
      [] fn = "_bundle_uris" -> "assets/uris/" \o filename
      [] fn = "_bundle_images" -> "images/" \o filename
      [] OTHER -> "images/screenshots/" \o filename

ZipEntryStamped(fn, filename, node) ==
    [arcname |-> Arcname(fn, filename) \o
                 (IF node.kind = "dir" THEN "/" ELSE ""),
     code |-> Rank(filename),
     data |-> node.data + run]

\* zip_file.write(fullpath, arcname): a file is stored with its content, a
\* directory as an entry of its own, without what it holds
ZipEntry(fn, filename, node) ==
    [arcname |-> Arcname(fn, filename) \o
                 (IF node.kind = "dir" THEN "/" ELSE ""),
     code |-> Rank(filename),
     data |-> node.data]

RECURSIVE WeightedSum(_, _)
WeightedSum(entries, i) ==
    IF i > Len(entries) THEN 0
    ELSE i * (entries[i].code + entries[i].data) + WeightedSum(entries, i + 1)

\* _hashfile: the digest of the bytes of a file
_hashfile(file) ==
    ToString((Len(file.entries) + WeightedSum(file.entries, 1)) % HashMod)

\* lines 580-585
ZipFileName(output_directory, package, digest) ==
    output_directory \o "/" \o package.name \o "-" \o package.version \o
    "-" \o digest \o ".zip"

\* lines 540-541
OutputDirectory(a) ==
    IF a.output_directory = None THEN "." ELSE Get(a.output_directory)

\* what util.load_json reads from a valid package.json
PackageJson(node) == [name |-> "foo", version |-> VersionStr(node.data)]

\* an archive an earlier build left in the output directory
OldArchive ==
    [entries |-> <<[arcname |-> "package.json", code |-> 0, data |-> 0]>>,
     complete |-> TRUE]

ExtraFileMsg(fullpath) ==
    "Error bundling package. Extra file in package directory [" \o
    fullpath \o "]"

ValidatingMsg(fullpath) == "Error validating JSON file [" \o fullpath \o "]"

AlreadyExistsMsg(name) ==
    "Output file [" \o name \o "] already exists"

CreatedMsg(name) ==
    "Created DCOS Universe package [" \o name \o "]."

\* the exception leaves both with blocks: the temporary file is deleted
BundleAbort(msgs, e) ==
    /\ Raise(msgs, e)
    /\ tmp' = None
    /\ stack' = <<>>

\* lines 540-551
BundleStart ==
    /\ cmd = "bundle" /\ pc = "bundle"
    /\ IF ~HasPackageJson(src)
       THEN /\ Raise(<<>>, "The file package.json is required in the " \o
                           "package directory [" \o args.package_directory
                           \o "]")
            /\ UNCHANGED <<package_json, validated>>
       ELSE LET node == Node(src, <<"package.json">>)
                fullpath == FullPath(args.package_directory, node.path)
            IN  IF ValidJson(node)
                THEN /\ package_json' = Some(PackageJson(node))
                     /\ validated' = validated \cup {node.path}
                     /\ pc' = "bundle_open"
                     /\ UNCHANGED <<out, exit>>
                ELSE /\ Raise(<<ValidatingMsg(fullpath)>>,
                              "Error: package.json violates its schema")
                     /\ UNCHANGED <<package_json, validated>>
    /\ UNCHANGED <<cmd, args, ivars, lvars, rvars,
                   src, files, tmp, stack, zip_file_name>>

\* lines 553-560: the temporary file and the archive are opened
BundleOpen ==
    /\ cmd = "bundle" /\ pc = "bundle_open"
    /\ tmp' = Some([entries |-> <<>>, complete |-> FALSE])
    /\ stack' = <<[fn |-> "_bundle", dir |-> <<>>,
                   todo |-> sorted(listdir(src, <<>>))]>>
    /\ pc' = "bundle_walk"
    /\ UNCHANGED <<cmd, args, ivars, lvars, rvars,
                   src, files, package_json, validated,
                   zip_file_name, out, exit>>

\* a for loop that has no entry left returns to its caller
RECURSIVE Unwind(_)
Unwind(st) ==
    IF st # <<>> /\ st[Len(st)].todo = <<>>
    THEN Unwind(SubSeq(st, 1, Len(st) - 1)) ELSE st

\* lines 560-577, 663-671, 684-687, 700-715, 728-735: one turn of the
\* innermost for loop; the archive is closed when the outermost loop ends
BundleEntry ==
    /\ cmd = "bundle" /\ pc = "bundle_walk"
    /\ LET top == stack[Len(stack)]
           filename == Head(top.todo)
           path == Append(top.dir, filename)
           node == Node(src, path)
           fullpath == FullPath(args.package_directory, path)
           rest == [stack EXCEPT ![Len(stack)].todo = Tail(top.todo)]
           kind == Classify(top.fn, filename, node.kind = "dir")
           written == [Get(tmp) EXCEPT
                         !.entries = Append(@, ZipEntry(top.fn, filename,
                                                        node))]
           Continue(st, archive, val) ==
               LET s2 == Unwind(st) IN
               /\ stack' = s2
               /\ tmp' = Some(IF s2 = <<>>
                              THEN [archive EXCEPT !.complete = TRUE]
                              ELSE archive)
               /\ pc' = IF s2 = <<>> THEN "bundle_name" ELSE "bundle_walk"
               /\ validated' = val
               /\ UNCHANGED <<out, exit>>
       IN  CASE kind = "write" -> Continue(rest, written, validated)
             [] kind = "json" ->
                  IF ValidJson(node)
                  THEN Continue(rest, written, validated \cup {path})
                  ELSE /\ BundleAbort(<<ValidatingMsg(fullpath)>>,
                              "Error: " \o filename \o
                              " violates its schema")
                       /\ UNCHANGED validated
             [] kind = "png" ->
                  IF ValidPng(node)
                  THEN Continue(rest, written, validated \cup {path})
                  ELSE /\ BundleAbort(<<>>, "Unable to validate [" \o
                              fullpath \o "] as a PNG file")
                       /\ UNCHANGED validated
             [] kind = "extra" ->
                  /\ BundleAbort(<<>>, ExtraFileMsg(fullpath))
                  /\ UNCHANGED validated
             [] OTHER ->
                  Continue(Append(rest,
                                  [fn |-> kind, dir |-> path,
                                   todo |-> sorted(listdir(src, path))]),
                           Get(tmp), validated)
    /\ UNCHANGED <<cmd, args, ivars, lvars, rvars,
                   src, files, package_json, zip_file_name>>

OutputExistsNever(path) == FALSE

\* os.path.exists(zip_file_name)
OutputExists(path) == path \in DOMAIN files

\* lines 579-590
BundleName ==
    /\ cmd = "bundle" /\ pc = "bundle_name"
    /\ LET name == ZipFileName(OutputDirectory(args), Get(package_json),
                               _hashfile(Get(tmp)))
       IN  /\ zip_file_name' = Some(name)
           /\ IF OutputExists(name)
              THEN BundleAbort(<<>>, AlreadyExistsMsg(name))
              ELSE /\ pc' = "bundle_copy"
                   /\ UNCHANGED <<tmp, stack, out, exit>>
    /\ UNCHANGED <<cmd, args, ivars, lvars, rvars,
                   src, files, package_json, validated>>

WriteFile(path, content) ==
    [p \in DOMAIN files \cup {path} |->
        IF p = path THEN content ELSE files[p]]

\* line 593, util.sh_copy: the destination is opened for writing, or the
\* copy fails with nothing written
BundleCopyOpen ==
    /\ cmd = "bundle" /\ pc = "bundle_copy"
    /\ \/ /\ files' = WriteFile(Get(zip_file_name),
                                [entries |-> <<>>, complete |-> FALSE])
          /\ pc' = "bundle_copying"
          /\ UNCHANGED <<tmp, stack, out, exit>>
       \/ /\ BundleAbort(<<>>, "Error copying to [" \o Get(zip_file_name)
                               \o "]")
          /\ UNCHANGED files
    /\ UNCHANGED <<cmd, args, ivars, lvars, rvars,
                   src, package_json, validated,
                   zip_file_name>>

\* lines 593-600: the content is copied, the temporary file is deleted and
\* the path is published; or the copy fails half way
BundleCopyWrite ==
    /\ cmd = "bundle" /\ pc = "bundle_copying"
    /\ \/ /\ files' = WriteFile(Get(zip_file_name), Get(tmp))
          /\ tmp' = None
          /\ Return(<<CreatedMsg(Get(zip_file_name))>>, 0)
          /\ UNCHANGED stack
       \/ /\ BundleAbort(<<>>, "Error copying to [" \o Get(zip_file_name)
                               \o "]")
          /\ UNCHANGED files
    /\ UNCHANGED <<cmd, args, ivars, lvars, rvars,
                   src, package_json, validated,
                   zip_file_name>>

BundleRunning ==
    {"bundle", "bundle_open", "bundle_walk", "bundle_name", "bundle_copy",
     "bundle_copying"}

\* the process is killed: nothing is cleaned up
BundleCrash ==
    /\ cmd = "bundle" /\ pc \in BundleRunning
    /\ pc' = "crashed"
    /\ UNCHANGED <<cmd, args, ivars, lvars, rvars, bvars, out, exit>>

\* the operator runs the same command again: a new process over the package
\* directory and the output directories as the last one left them
BundleAgain ==
    /\ cmd = "bundle" /\ pc = "done" /\ run < MaxRuns
    /\ run' = run + 1
    /\ first' = IF run = 1
                THEN Some([exit |-> exit, zip_file_name |-> zip_file_name,
                           files |-> files])
                ELSE first
    /\ pc' = "bundle"
    /\ out' = <<>>
    /\ exit' = None
    /\ tmp' = None
    /\ stack' = <<>>
    /\ package_json' = None
    /\ validated' = {}
    /\ zip_file_name' = None
    /\ UNCHANGED <<cmd, args, ivars, lvars, src, files>>

(***************************************************************************)
(* The invocation: command, arguments and environment.                     *)
(***************************************************************************)
(***************************************************************************)
(* list: lines 410-479.                                                    *)
(***************************************************************************)
AppIds == {"/a", "/b"}

\* pkg.dict() of an installed package: its name and, when the scheduler runs
\* instances of it, the ids of these instances; a package of which only the
\* subcommand is installed has no such key
InstalledRecords ==
    [name : {"foo", "bar"},
     apps : {None, Some(<<"/a">>), Some(<<"/b">>), Some(<<"/a", "/b">>)}]

RECURSIVE SeqsUpTo(_, _)
SeqsUpTo(S, k) ==
    IF k = 0 THEN {<<>>}
    ELSE LET T == SeqsUpTo(S, k - 1) IN
         T \cup {Append(t, x) : t \in {u \in T : Len(u) = k - 1}, x \in S}

\* lines 454-465
_matches_package_name(name, pkg_info) ==
    name = None \/ pkg_info.name = Get(name)

\* line 479: pkg_info.get('apps') is None when the key is absent, and
\* `app_id in None` is a TypeError
MatchesAppIdRaises(app_id, pkg_info) ==
    app_id # None /\ pkg_info.apps = None

\* lines 468-479
_matches_app_id(app_id, pkg_info) ==
    \/ app_id = None
    \/ \E i \in DOMAIN Get(pkg_info.apps) :
          Get(pkg_info.apps)[i] = Get(app_id)

\* line 436, `if app_id:`
Truthy(app_id) == app_id # None /\ Get(app_id) # ""

\* lines 438-441
NarrowApps(pkg_info, app_id) ==
    [pkg_info EXCEPT
        !.apps = Some(SelectSeq(Get(@), LAMBDA a : a = Get(app_id)))]

RowText(row) ==
    row.name \o ":" \o
    (IF row.apps = None THEN "-" ELSE JoinWith(",", Get(row.apps)))

\* emitting.publish_table(emitter, results, tables.package_table, json_)
TableText(rows, json) ==
    (IF json THEN "json[" ELSE "table[") \o
    JoinWith(";", [i \in 1 .. Len(rows) |-> RowText(rows[i])]) \o "]"

\* lines 448-449, the backquotes of the message written as quotes
NoPackagesMsg ==
    "There are currently no installed packages. " \o
    "Please use 'dcos package install' to install a package."

\* lines 426-428: the installed packages are fetched, or the fetch fails
ListFetch ==
    /\ cmd = "list" /\ pc = "list"
    /\ \/ /\ installed' \in SeqsUpTo(InstalledRecords, MaxInstalled)
          /\ cursor' = 1
          /\ results' = <<>>
          /\ pc' = "list_loop"
          /\ UNCHANGED <<out, exit>>
       \/ /\ Raise(<<>>, "Error: could not reach the scheduler")
          /\ UNCHANGED lvars
    /\ UNCHANGED <<cmd, args, ivars, bvars, rvars>>

\* lines 432-443: one turn of the for loop
ListStep ==
    /\ cmd = "list" /\ pc = "list_loop" /\ cursor <= Len(installed)
    /\ LET pkg_info == installed[cursor] IN
       IF ~_matches_package_name(args.package_name, pkg_info)
       THEN /\ cursor' = cursor + 1
            /\ UNCHANGED <<pc, results>>
       ELSE IF MatchesAppIdRaises(args.app_id, pkg_info)
       THEN /\ pc' = "crashed"
            /\ UNCHANGED <<cursor, results>>
       ELSE IF _matches_app_id(args.app_id, pkg_info)
       THEN /\ results' = Append(results,
                                 IF Truthy(args.app_id)
                                 THEN NarrowApps(pkg_info, args.app_id)
                                 ELSE pkg_info)
            /\ cursor' = cursor + 1
            /\ UNCHANGED pc
       ELSE /\ cursor' = cursor + 1
            /\ UNCHANGED <<pc, results>>
    /\ UNCHANGED <<cmd, args, ivars, bvars, rvars, installed, out, exit>>

\* lines 445-451
ListEmit ==
    /\ cmd = "list" /\ pc = "list_loop" /\ cursor > Len(installed)
    /\ IF results # <<>> \/ args.json_
       THEN Return(<<TableText(results, args.json_)>>, 0)
       ELSE Raise(<<>>, NoPackagesMsg)
    /\ UNCHANGED <<cmd, args, ivars, bvars, lvars, rvars>>

\* lines 76-80
ListArgs ==
    [json_ : BOOLEAN, endpoints : BOOLEAN,
     app_id : {None} \cup {Some(a) : a \in AppIds},
     package_name : {None, Some("foo"), Some("bar")}]

DescribeArgs ==
    [package_name : PackageNames,
     package_version : {None} \cup {Some(v) : v \in Versions},
     options_path : {None, Some("options.json")},
     cli : BOOLEAN, app : BOOLEAN, render : BOOLEAN,
     package_versions : BOOLEAN, config : BOOLEAN]

InstallArgs ==
    [package_name : PackageNames,
     package_version : {None} \cup {Some(v) : v \in Versions},
     options_path : {None, Some("options.json")},
     app_id : {None, Some("/custom")},
     cli : BOOLEAN, app : BOOLEAN, yes : BOOLEAN]

BundleArgs ==
    [package_directory : {"pkgdir"},
     output_directory : {None, Some("out")}]

\* what the output directory holds before a build: nothing, or one archive
\* of an earlier build under one of the names a build can compute
InitialFiles(a) ==
    {<<>>} \cup
    {[p \in {ZipFileName(OutputDirectory(a),
                        [name |-> "foo", version |-> VersionStr(1)],
                        ToString(h))} |-> OldArchive] : h \in 0 .. (HashMod - 1)}

Init ==
    /\ cmd \in {"install", "describe", "bundle", "list"}
    /\ pc = cmd
    /\ args \in (CASE cmd = "install" -> InstallArgs
                   [] cmd = "describe" -> DescribeArgs
                   [] cmd = "list" -> ListArgs
                   [] OTHER -> BundleArgs)
    /\ repo \in (IF cmd \in {"bundle", "list"} THEN {[n \in KnownPackages |-> {}]}
                 ELSE [KnownPackages -> SUBSET Revisions])
    /\ src \in (IF cmd = "bundle" THEN Trees(MaxEntries) ELSE {{}})
    /\ files \in (IF cmd = "bundle" THEN InitialFiles(args) ELSE {<<>>})
    /\ tmp = None
    /\ stack = <<>>
    /\ package_json = None
    /\ validated = {}
    /\ zip_file_name = None
    /\ installed = <<>>
    /\ cursor = 1
    /\ results = <<>>
    /\ run = 1
    /\ first = None
    /\ cli = FALSE
    /\ app = FALSE
    /\ pkg = None
    /\ pkg_revision = None
    /\ user_options = None
    /\ options = None
    /\ prompts = 0
    /\ response = None
    /\ apps = {}
    /\ subcommands = {}
    /\ calls = <<>>
    /\ out = <<>>
    /\ exit = None

Next ==
    \/ InstallResolve
    \/ InstallUserOptions
    \/ InstallPreNotes
    \/ InstallConfirm
    \/ InstallOptions
    \/ InstallApp
    \/ InstallCli
    \/ InstallPostNotes
    \/ DescribeResolve
    \/ DescribeEmit
    \/ BundleStart
    \/ BundleOpen
    \/ BundleEntry
    \/ BundleName
    \/ BundleCopyOpen
    \/ BundleCopyWrite
    \/ BundleCrash
    \/ BundleAgain
    \/ ListFetch
    \/ ListStep
    \/ ListEmit

Spec == Init /\ [][Next]_vars

(***************************************************************************)
(* Vocabulary of the properties.                                           *)
(***************************************************************************)
CallIdx(fn) == {i \in 1 .. Len(calls) : calls[i].fn = fn}
Failed(fn) == \E i \in CallIdx(fn) : ~calls[i].ok
Succeeded(fn) == \E i \in CallIdx(fn) : calls[i].ok
NoTargetMutation == calls = <<>> /\ apps = {} /\ subcommands = {}
Resolved == cmd = "install" /\ pkg # None
LastOut == out[Len(out)]
YesResponses == {<<"y", "e", "s">>, <<"y">>}
NoResponses == {<<"n", "o">>, <<"n">>}
Declined == response # None /\ Get(response) \in NoResponses

\* messages of an install that are not errors
InstallInfoMsgs ==
    {"pre-install notes", "post-install notes",
     "Continue installing? [yes/no] ", "Exiting installation.",
     "'' is not a valid response.", "'ye' is not a valid response.",
     "New command available: dcos foo"} \cup
    {InstallingAppMsg(n, v, i) :
        n \in KnownPackages, v \in Versions, i \in {None, Some("/custom")}} \cup
    {InstallingCliMsg(n, v) : n \in KnownPackages, v \in Versions}

\* C1: in every install attempt the scheduler step runs strictly before the
\* subcommand step: every install_app call precedes every subcommand.install
\* call, the subcommand step starts only after a requested and declared app
\* was installed, and a failed scheduler step ends the command with status 1
\* with subcommand.install never called and the subcommand store untouched.
C1_SchedulerBeforeCli ==
    cmd = "install" =>
      /\ \A i \in CallIdx("subcommand.install") :
           \A j \in CallIdx("install_app") : j < i
      /\ (CallIdx("subcommand.install") # {} /\ app /\ Get(pkg).marathon)
            => Succeeded("install_app")
      /\ Failed("install_app") =>
            /\ CallIdx("subcommand.install") = {}
            /\ subcommands = {}
            /\ pc = "done"
            /\ exit = Some(1)

\* C1 witness: the scheduler step failed in a run that had a subcommand to
\* install.
C1_Witness ==
    /\ Resolved /\ Failed("install_app")
    /\ cli /\ Get(pkg).command /\ pc = "done"

\* C2: when the subcommand step fails after the scheduler step succeeded, the
\* app stays installed, the adapters saw no call besides the two installs,
\* and the run ends with status 1 after exactly one error message, the last
\* one published.
C2_NoRollback ==
    (cmd = "install" /\ Failed("subcommand.install")) =>
      /\ pc = "done" /\ exit = Some(1)
      /\ Succeeded("install_app") =>
            \E a \in apps : a.name = Get(pkg).name
      /\ \A i \in 1 .. Len(calls) :
            calls[i].fn \in {"install_app", "subcommand.install"}
      /\ Len(calls) <= 2
      /\ LastOut \notin InstallInfoMsgs
      /\ \A i \in 1 .. (Len(out) - 1) : out[i] \in InstallInfoMsgs

\* C2 witness: the subcommand step failed after the app was installed.
C2_Witness ==
    /\ cmd = "install" /\ Failed("subcommand.install")
    /\ Succeeded("install_app") /\ apps # {}

\* C3: with pre-install notes and no yes override, a target is touched only
\* after the operator answered yes, and an operator who answered no ends the
\* run with status 0 and no target touched.
C3_ConfirmBeforeMutation ==
    (Resolved /\ Get(pkg).preInstallNotes # None /\ ~args.yes) =>
      /\ ~NoTargetMutation =>
            (response # None /\ Get(response) \in YesResponses)
      /\ Declined => (NoTargetMutation /\ pc = "done" /\ exit = Some(0))

\* C3 witness: the operator declined.
C3_Witness ==
    /\ Resolved /\ Get(pkg).preInstallNotes # None /\ ~args.yes
    /\ Declined /\ pc = "done"

PostNotesPublished ==
    /\ Resolved /\ Get(pkg).postInstallNotes # None
    /\ \E i \in 1 .. Len(out) : out[i] = Get(Get(pkg).postInstallNotes)

AllTargetsSkipped ==
    ~(app /\ Get(pkg).marathon) /\ ~(cli /\ Get(pkg).command)

\* C4 as stated: whenever the post-install notes are published, the scheduler
\* step or the subcommand step was executed and succeeded earlier in the run.
C4_Original ==
    PostNotesPublished =>
        (Succeeded("install_app") \/ Succeeded("subcommand.install"))

\* C4 amended: whenever the post-install notes are published, no target step
\* failed earlier in the run, and a target step was executed and succeeded
\* unless every requested target was skipped for want of a template.
C4_PostNotesAfterNoFailure ==
    PostNotesPublished =>
      /\ \A i \in 1 .. Len(calls) : calls[i].ok
      /\ \/ Succeeded("install_app")
         \/ Succeeded("subcommand.install")
         \/ AllTargetsSkipped /\ NoTargetMutation
      /\ exit = Some(0)

\* C4 witness: the notes are published after both targets were installed.
C4_Witness ==
    /\ PostNotesPublished
    /\ Succeeded("install_app") /\ Succeeded("subcommand.install")

\* C5: the scheduler is called only for a revision with an app template and
\* the subcommand is installed only for one with a command template; a skip
\* is no error (a run past option validation in which no adapter call failed
\* ends with status 0), and with both targets requested on a revision that
\* declares only a command template an installed subcommand leaves no app
\* and status 0.
C5_SkipUndeclaredTarget ==
    Resolved =>
      /\ CallIdx("install_app") # {} => Get(pkg).marathon
      /\ CallIdx("subcommand.install") # {} => Get(pkg).command
      /\ (pc = "done" /\ options # None /\ \A i \in 1 .. Len(calls) : calls[i].ok)
            => exit = Some(0)
      /\ (pc = "done" /\ cli /\ app /\ ~Get(pkg).marathon /\ Get(pkg).command
            /\ Succeeded("subcommand.install"))
            => /\ Get(pkg).name \in subcommands
               /\ apps = {}
               /\ CallIdx("install_app") = {}
               /\ exit = Some(0)

\* C5 witness: both targets requested, only a command template declared, the
\* subcommand installed.
C5_Witness ==
    /\ Resolved /\ pc = "done" /\ cli /\ app
    /\ ~Get(pkg).marathon /\ Get(pkg).command
    /\ Get(pkg).name \in subcommands /\ exit = Some(0)

MergedInvalid ==
    /\ user_options # None
    /\ ValidateOptions(MergeOptions(ConfigDefaults, Get(user_options))) # {}

\* C6: a target is touched only with the merged option set built and valid,
\* and when the merged options violate the schema no target is ever touched
\* and a run that gets to validate them ends with status 1.
C6_ValidateBeforeTargets ==
    cmd = "install" =>
      /\ ~NoTargetMutation =>
            /\ options = Some(MergeOptions(ConfigDefaults, Get(user_options)))
            /\ ValidateOptions(Get(options)) = {}
            /\ \A i \in 1 .. Len(calls) : calls[i].options = options
      /\ MergedInvalid =>
            /\ NoTargetMutation
            /\ (pc = "done" /\ ~Declined) => exit = Some(1)

\* C6 witness: the validation of the merged options failed.
C6_Witness ==
    /\ cmd = "install" /\ MergedInvalid /\ pc = "done" /\ ~Declined
    /\ LastOut = OptionErrorsMsg(
           ValidateOptions(MergeOptions(ConfigDefaults, Get(user_options))))

VersionMissing ==
    /\ args.package_version # None
    /\ args.package_name \in DOMAIN repo
    /\ latest_package_revision(repo[args.package_name],
                               args.package_version) = None

PastArgCheck == cmd = "install" \/ (cmd = "describe" /\ ~DescribeArgConflict(args))

NotFoundMsgs ==
    {InstallNotFoundMsg(n) : n \in PackageNames} \cup
    {DescribeNotFoundMsg(n) : n \in PackageNames}

\* C7: install and describe end a run for a known package with a supplied
\* version that its revision map lacks with status 1, no target touched and an
\* error that is not the error of any unknown package; a run for an unknown
\* package ends with status 1, no target touched and the not-found error.
C7_VersionDistinctFromNotFound ==
    (pc = "done" /\ PastArgCheck) =>
      /\ VersionMissing =>
            /\ exit = Some(1)
            /\ NoTargetMutation
            /\ out = <<VersionNotAvailableMsg(args.package_version,
                                              args.package_name)>>
            /\ LastOut \notin NotFoundMsgs
      /\ args.package_name \notin DOMAIN repo =>
            /\ exit = Some(1)
            /\ NoTargetMutation
            /\ Len(out) = 1
            /\ LastOut \in NotFoundMsgs

\* C7 witness: install of a known package at a version it does not have.
C7_Witness ==
    /\ pc = "done" /\ cmd = "install" /\ VersionMissing
    /\ exit = Some(1)

\* the allow-list of the archive manifest: package.json, config.json,
\* command.json, marathon.json.mustache, assets/uris/*, the three icons,
\* images/screenshots/*, and the directories these lie in
Allowed(n) ==
    \/ /\ n.kind = "file"
       /\ n.path \in {<<"package.json">>, <<"config.json">>,
                      <<"command.json">>, <<"marathon.json.mustache">>}
    \/ /\ n.kind = "dir"
       /\ n.path \in {<<"assets">>, <<"assets", "uris">>, <<"images">>,
                      <<"images", "screenshots">>}
    \/ Len(n.path) = 3 /\ Parent(n.path) = <<"assets", "uris">>
    \/ Len(n.path) = 3 /\ Parent(n.path) = <<"images", "screenshots">>
    \/ /\ n.kind = "file" /\ Len(n.path) = 2
       /\ n.path[1] = "images" /\ n.path[2] \in Icons

\* the output directories hold nothing this build put there
NoNewOutput == \A p \in DOMAIN files : files[p] = OldArchive

\* C8 as stated: a build of a package directory that holds, at any level, an
\* entry outside the allow-list ends with an error and no file at the output
\* path.
C8_Original ==
    (cmd = "bundle" /\ pc = "done" /\ \E n \in src : ~Allowed(n)) =>
        (exit = Some(1) /\ NoNewOutput)

\* C9 as stated: at every point of a build, a crash or a failure included,
\* every file of the output directory is a complete archive.
C9_Original ==
    cmd = "bundle" => \A p \in DOMAIN files : files[p].complete

\* the name the build computes once the archive is closed
ComputedName ==
    ZipFileName(OutputDirectory(args), Get(package_json), _hashfile(Get(tmp)))

\* C10: a build never changes a complete file of the output directory, and
\* a build that finds a file under the name it computed ends, unless it is
\* killed, with the already-exists error, status 1 and every file as it was.
C10_NoOverwrite ==
    [][ /\ \A p \in DOMAIN files :
              files[p].complete =>
                  (p \in DOMAIN files' /\ files'[p] = files[p])
        /\ (cmd = "bundle" /\ pc = "bundle_name" /\ pc' # "crashed"
              /\ ComputedName \in DOMAIN files)
              => /\ pc' = "done"
                 /\ exit' = Some(1)
                 /\ out' = Append(out, AlreadyExistsMsg(ComputedName))
                 /\ files' = files ]_vars

\* C10 witness: the build ended on the conflict, the earlier archive in place.
C10_Witness ==
    /\ cmd = "bundle" /\ pc = "done" /\ zip_file_name # None
    /\ Get(zip_file_name) \in DOMAIN files
    /\ files[Get(zip_file_name)] = OldArchive
    /\ out = <<AlreadyExistsMsg(Get(zip_file_name))>>
    /\ exit = Some(1)

\* the first build succeeded
FirstBuilt ==
    /\ cmd = "bundle" /\ run >= 2 /\ first # None
    /\ Get(first).exit = Some(0)

JsonPaths == {<<"package.json">>, <<"config.json">>, <<"command.json">>}

PngPaths ==
    {<<"images", i>> : i \in Icons} \cup
    {n.path : n \in {m \in SourceEntries :
                        /\ Len(m.path) = 3
                        /\ SubSeq(m.path, 1, 2) = <<"images", "screenshots">>}}

\* the entry of an archive that was written from the path
EntryOf(archive, path) ==
    {i \in 1 .. Len(archive.entries) :
        archive.entries[i].arcname \in
            {JoinWith("/", path), JoinWith("/", path) \o "/"}}

PassesValidation(path) ==
    /\ \E n \in src : n.path = path
    /\ IF path \in JsonPaths THEN ValidJson(Node(src, path))
       ELSE ValidPng(Node(src, path))

\* the errors of a validation that failed
ValidationErrors ==
    {"Error: " \o f \o " violates its schema" :
        f \in {"package.json", "config.json", "command.json"}} \cup
    {"Unable to validate [" \o FullPath(args.package_directory, q) \o
     "] as a PNG file" : q \in PngPaths}

\* C12: an archive under construction holds the entry of a path that is
\* validated only after the validation of that path has passed in this
\* build, every such entry of an archive a build put into the output
\* directory is of a path that passes validation, and a build that ended
\* on a validation error has status 1, its temporary archive gone and
\* nothing put into the output directory.
C12_ValidateBeforeWrite ==
    cmd = "bundle" =>
      /\ \A q \in JsonPaths \cup PngPaths :
            /\ (tmp # None /\ EntryOf(Get(tmp), q) # {}) =>
                  (q \in validated /\ PassesValidation(q))
            /\ \A f \in DOMAIN files :
                  (files[f] # OldArchive /\ EntryOf(files[f], q) # {}) =>
                      PassesValidation(q)
      /\ (pc = "done" /\ out # <<>> /\ LastOut \in ValidationErrors) =>
            (exit = Some(1) /\ tmp = None /\ NoNewOutput)

\* C12 witness: a build put an archive with command.json and an icon into
\* the output directory.
C12_Witness ==
    /\ cmd = "bundle" /\ run = 1 /\ pc = "done" /\ exit = Some(0)
    /\ {<<"command.json">>, <<"images", "icon-small.png">>} \subseteq validated
    /\ EntryOf(files[Get(zip_file_name)], <<"images", "icon-small.png">>) # {}
    /\ EntryOf(files[Get(zip_file_name)], <<"command.json">>) # {}

\* the records of rows that the filter of the claim keeps
RECURSIVE Filtered(_)
Filtered(rows) ==
    IF rows = <<>> THEN <<>>
    ELSE LET r == Head(rows)
             named == args.package_name = None \/
                      r.name = Get(args.package_name)
             ids == IF r.apps = None THEN {}
                    ELSE {Get(r.apps)[i] : i \in DOMAIN Get(r.apps)}
             has == args.app_id = None \/ Get(args.app_id) \in ids
             kept == IF args.app_id = None THEN r
                     ELSE [r EXCEPT !.apps = Some(<<Get(args.app_id)>>)]
         IN  (IF named /\ has THEN <<kept>> ELSE <<>>) \o Filtered(Tail(rows))

\* the records a listing that is over has emitted
Emitted == IF pc = "done" /\ exit = Some(0) THEN results ELSE <<>>

\* C13 as stated: a listing that is over has emitted exactly the fetched
\* records, in fetched order, whose name is the given package name (when one
\* is given) and whose app list contains the given app-id (when one is
\* given), the app list narrowed to that id when one is given.
C13_Original ==
    (cmd = "list" /\ pc \in {"done", "crashed"}) =>
        Emitted = Filtered(installed)

\* C14: once the flags are read, the CLI target or the app target is
\* active, both when neither flag or both flags are given and otherwise the
\* one whose flag is given; with only the app flag no call of
\* subcommand.install is made and the subcommand store stays as it was, with
\* only the cli flag no call of package.install_app is made and no app is
\* started, and with neither flag an install that got past the app step
\* called package.install_app if the revision declares the app template, one
\* that got past the CLI step called subcommand.install if it declares the
\* command template.
C14_InstallModes ==
    cmd = "install" =>
      /\ pc # "install" =>
            /\ cli \/ app
            /\ cli = (args.cli \/ ~args.app)
            /\ app = (args.app \/ ~args.cli)
      /\ (args.app /\ ~args.cli) =>
            (CallIdx("subcommand.install") = {} /\ subcommands = {})
      /\ (args.cli /\ ~args.app) =>
            (CallIdx("install_app") = {} /\ apps = {})
      /\ (~args.cli /\ ~args.app) =>
            LET past_app == pc \in {"cli", "post_notes"} \/
                            (pc = "done" /\ exit = Some(0) /\ ~Declined)
                past_cli == pc = "post_notes" \/
                            (pc = "done" /\ exit = Some(0) /\ ~Declined)
            IN  /\ (past_app /\ has_marathon_definition(Get(pkg))) =>
                      Succeeded("install_app")
                /\ (past_cli /\ has_command_definition(Get(pkg))) =>
                      Succeeded("subcommand.install")

\* C14 witness: an install without either flag is over and has installed
\* the app and the subcommand.
C14_Witness ==
    /\ cmd = "install" /\ pc = "done" /\ exit = Some(0)
    /\ ~args.cli /\ ~args.app
    /\ Succeeded("install_app") /\ Succeeded("subcommand.install")
    /\ apps # {} /\ subcommands # {}

\* what a line of StdinLines is once trimmed and lowered
NormalizedResponses ==
    YesResponses \cup NoResponses \cup {<<>>, <<"y", "e">>}

PreNotesPublished ==
    /\ Resolved /\ Get(pkg).preInstallNotes # None
    /\ \E i \in 1 .. Len(out) : out[i] = Get(Get(pkg).preInstallNotes)

\* C15: without the yes override a turn of the prompt loop reads a line and
\* takes it trimmed and lowered: on yes or y the install goes on, on no or n
\* it ends with status 0, on anything else, the empty line included, the
\* prompt loop is entered again with no target touched and no status set;
\* so an install that published its pre-install notes and is past the prompt
\* loop has read yes, y, no or n.  With the yes override the prompt loop is
\* never entered and no line is ever read.
C15_PromptLoop ==
    /\ [](cmd = "install" =>
            /\ (PreNotesPublished /\ ~args.yes /\ pc # "confirm") =>
                  /\ response # None
                  /\ Get(response) \in YesResponses \cup NoResponses
            /\ args.yes =>
                  (response = None /\ prompts = 0 /\ pc # "confirm"))
    /\ [][(cmd = "install" /\ pc = "confirm") =>
            /\ ~args.yes
            /\ response' # None
            /\ Get(response') \in NormalizedResponses
            /\ <<apps, subcommands, calls>>' = <<apps, subcommands, calls>>
            /\ Get(response') \in YesResponses =>
                  (pc' = "options" /\ exit' = None)
            /\ Get(response') \in NoResponses =>
                  (pc' = "done" /\ exit' = Some(0))
            /\ Get(response') \notin YesResponses \cup NoResponses =>
                  /\ pc' = "confirm" /\ exit' = None
                  /\ prompts' = prompts + 1
                  /\ out' = out \o
                        <<"Continue installing? [yes/no] ",
                          "'" \o Join(Get(response')) \o
                          "' is not a valid response.">>]_vars

\* C15 witness: the operator was asked again after a response that is not
\* valid, answered yes, and the install went on to its end.
C15_Witness ==
    /\ cmd = "install" /\ ~args.yes /\ prompts >= 1
    /\ pc = "done" /\ exit = Some(0)
    /\ response # None /\ Get(response) \in YesResponses
    /\ ~NoTargetMutation

====
